---------------------------- MODULE Spec2Model ----------------------------
(***************************************************************************)
(* The B+tree engine of tl-bplus-tree.js: the index-ordered tree ("I",     *)
(* i.js) and the key/value tree ("V", v.js).                               *)
(*                                                                         *)
(* The heap is a sequence of Node records; a Node reference is its index   *)
(* (a positive integer), null is 0 and a leaf payload is a negative        *)
(* integer, so `x instanceof Node` is x > 0.  In the I-tree a payload is   *)
(* an opaque value -v; in the V-tree it is a KeyValue, encoded as          *)
(* -(key * 10 + value).  Array indices are 0-based as in the source.       *)
(*                                                                         *)
(* An operator that mutates takes the tree state t = [h, root, first, err, *)
(* tags] and returns the new one.  err # "" records that the running call  *)
(* has thrown: every later step of that call is then skipped, and the heap *)
(* stays as the throw left it.                                             *)
(***************************************************************************)
EXTENDS Integers, Sequences, FiniteSets, TLC

VARIABLES
    heap,          \* the Node objects
    root,          \* Tree.root
    first,         \* Tree.first
    nodeCapacity,  \* Tree.nodeCapacity
    variant,       \* "I" (i.js) or "V" (v.js)
    err,           \* "" or the exception the last call threw
    arr,           \* the reference array of the I-tree test
    map,           \* the reference Map of the V-tree test
    last           \* the branches the last call took, or what a read returned

vars == <<heap, root, first, nodeCapacity, variant, err, arr, map, last>>

\* Bounds of the model.
MaxItems == 8      \* the I-tree holds at most this many items
MaxOddItems == 6   \* the same, when nodeCapacity is odd
MaxDeepItems == 14 \* the same, when every item is the same value
MaxKey == 6        \* V-tree keys are 1..MaxKey
NumVals == 2       \* payload values are 1..NumVals
MaxMarked == 1     \* at most this many payloads at a time have a value other than 1

NULL == 0

Min(a, b) == IF a < b THEN a ELSE b
Max(a, b) == IF a > b THEN a ELSE b

IsNode(x) == x > 0

KeyValue(key, value) == -(key * 10 + value)
KeyOfItem(x) == (-x) \div 10
ValueOfItem(x) == (-x) % 10

\* children[i]; reading outside the array gives undefined, which is not a Node
Get(children, i) == IF i >= 0 /\ i < Len(children) THEN children[i + 1] ELSE NULL

Throw(t, e) == IF t.err = "" THEN [t EXCEPT !.err = e] ELSE t

Tag(t, g) == [t EXCEPT !.tags = @ \cup {g}]

Node(capacity) ==
    [children |-> [i \in 1..capacity |-> NULL], childCount |-> 0,
     treeSize |-> 0, key |-> NULL, parent |-> NULL, prev |-> NULL, next |-> NULL]

\* Array.prototype.copyWithin(target, start, end) on a sealed array
copyWithin(children, target, start, end) ==
    LET len == Len(children)
        to == IF target < 0 THEN Max(len + target, 0) ELSE Min(target, len)
        from == IF start < 0 THEN Max(len + start, 0) ELSE Min(start, len)
        final == IF end < 0 THEN Max(len + end, 0) ELSE Min(end, len)
        count == Min(final - from, len - to)
    IN  [i \in 1..len |->
            IF i - 1 >= to /\ i - 1 < to + count
            THEN children[i - to + from] ELSE children[i]]

setCapacity(t, n, capacity) ==
    IF t.err # "" \/ capacity < 1 THEN t
    ELSE LET old == t.h[n].children
             cc == t.h[n].childCount
             t1 == [t EXCEPT !.h[n].children =
                        [i \in 1..capacity |-> IF i <= cc THEN Get(old, i - 1) ELSE NULL]]
         IN  IF cc > capacity THEN Throw(t1, "TypeError: sealed") ELSE t1

isLeaf(h, n) == ~IsNode(Get(h[n].children, 0))

\* this.parent.children.indexOf(this)
index(h, n) ==
    LET ch == h[h[n].parent].children
    IN  IF \E i \in 1..Len(ch) : ch[i] = n
        THEN (CHOOSE i \in 1..Len(ch) : ch[i] = n /\ \A j \in 1..(i - 1) : ch[j] # n) - 1
        ELSE -1

RECURSIVE SumTreeSize(_, _, _, _)
SumTreeSize(h, children, start, end) ==
    IF start >= end THEN 0
    ELSE h[Get(children, start)].treeSize + SumTreeSize(h, children, start + 1, end)

RECURSIVE AddTreeSize(_, _, _)
AddTreeSize(h, node, sum) ==
    IF node = NULL THEN h
    ELSE AddTreeSize([h EXCEPT ![node].treeSize = @ + sum], h[node].parent, sum)

updateTreeSize(t, n, start, end, sign) ==
    IF t.err # "" THEN t
    ELSE IF ~isLeaf(t.h, n) /\ \E i \in start..(end - 1) : ~IsNode(Get(t.h[n].children, i))
    THEN Throw(t, "TypeError: null")
    ELSE LET sum == IF isLeaf(t.h, n) THEN end - start
                    ELSE SumTreeSize(t.h, t.h[n].children, start, end)
         IN  IF sum = 0 THEN t
             ELSE [t EXCEPT !.h = AddTreeSize(t.h, n, sum * sign)]

\* x.key for a KeyValue or a Node x
KeyOf(h, x) == IF IsNode(x) THEN h[x].key ELSE KeyOfItem(x)

\* seeded fault: the key of the node is set, its ancestors keep theirs
updateKeyNoAncestors(t, node) ==
    IF t.err # "" \/ node = NULL THEN t
    ELSE LET c == Get(t.h[node].children, 0)
         IN  IF c = NULL THEN Throw(t, "TypeError: null")
             ELSE [t EXCEPT !.h[node].key = KeyOf(t.h, c)]

\* seeded fault: every ancestor is given the first key of the node the walk
\* started from
newKeyOfThis(h, this, node) == KeyOf(h, Get(h[this].children, 0))

\* node.children[0].key, for the node the walk of this.updateKey() is at
newKey(h, this, node) == KeyOf(h, Get(h[node].children, 0))

\* where the walk of updateKey stands when it goes from node to its parent:
\* 0 while every node of the path is slot 0 of its parent, 1 at the first
\* ancestor in which the path's child is not at index 0, 2 above it
stageAbove(h, node, stage) ==
    IF stage >= 1 THEN 2 ELSE IF index(h, node) # 0 THEN 1 ELSE 0

\* what one assignment of updateKey did: it was made above the first
\* ancestor in which the path's child is not at index 0, and it changed the
\* key at or above that ancestor
noteKey(pre, post, node, stage) ==
    [post EXCEPT !.tags = @ \cup
        (IF stage = 2 THEN {"keyWalkAbove"} ELSE {}) \cup
        (IF stage = 0 /\ post.h[node].key # pre.h[node].key /\ pre.h[node].parent # NULL
         THEN {"keyChangedOnPath"} ELSE {}) \cup
        (IF stage = 1 /\ post.h[node].key # pre.h[node].key
         THEN {"keyChangedAt"} ELSE {}) \cup
        (IF stage = 2 /\ post.h[node].key # pre.h[node].key
         THEN {"keyChangedAbove"} ELSE {})]

\* for (let node = this; node; node = node.parent)
RECURSIVE updateKeyFrom(_, _, _, _)
updateKeyFrom(t, this, node, stage) ==
    IF t.err # "" \/ node = NULL THEN t
    ELSE IF Get(t.h[node].children, 0) = NULL THEN Throw(t, "TypeError: null")
    ELSE updateKeyFrom(
             noteKey(t, [t EXCEPT !.h[node].key = newKey(t.h, this, node)], node, stage),
             this, t.h[node].parent,
             IF t.h[node].parent = NULL THEN stage ELSE stageAbove(t.h, node, stage))

updateKey(t, node) == updateKeyFrom(t, node, node, 0)

\* what the array of node n looks like once moveFrom has made room for
\* `count` more slots
noteRoom(t, n, count) ==
    IF t.err # "" THEN t
    ELSE [t EXCEPT !.tags = @
            \cup (IF t.h[n].childCount + count > Len(t.h[n].children)
                  THEN {"roomShort"} ELSE {})
            \cup (IF Len(t.h[n].children) > nodeCapacity THEN {"roomOver"} ELSE {})]

\* what the array of node n looks like once wipe has reduced it
noteReduced(t, n) ==
    IF t.err = "" /\ t.h[n].childCount > 0
                 /\ t.h[n].childCount * 2 <= Len(t.h[n].children)
    THEN Tag(t, "reducedShort") ELSE t

wipe(t, n, start, end) ==
    LET sized(t0) == IF variant = "I" THEN updateTreeSize(t0, n, start, end, -1) ELSE t0
        cleared(t1) ==
            IF t1.err # "" THEN t1
            ELSE LET cc == t1.h[n].childCount
                     moved == copyWithin(t1.h[n].children, start, end, cc)
                     len == Len(moved)
                     nulled == [i \in 1..len |->
                                  IF i - 1 >= cc - end + start /\ i - 1 < cc
                                  THEN NULL ELSE moved[i]]
                 IN  \* a write of null at an index outside the sealed array throws
                     IF cc > len /\ end > start
                     THEN Throw([t1 EXCEPT !.h[n].children = nulled], "TypeError: sealed")
                     ELSE [t1 EXCEPT !.h[n].children = nulled,
                                     !.h[n].childCount = cc - (end - start)]
        \* Reduce allocated size if possible
        reduced(t2) ==
            LET len == Len(t2.h[n].children)
            IN  IF t2.err # "" \/ t2.h[n].childCount * 2 > len THEN t2
                ELSE IF len % 2 = 1 /\ len > 1
                THEN Throw(t2, "RangeError: Invalid array length")
                ELSE setCapacity(t2, n, len \div 2)
        \* Update key if first item changed
        keyed(t3) ==
            IF variant = "V" /\ start = 0 /\ t3.h[n].childCount > 0
            THEN updateKey(t3, n) ELSE t3
    IN  keyed(noteReduced(reduced(cleared(sized(t))), n))

RECURSIVE SetParents(_, _, _, _)
SetParents(h, n, target, count) ==
    IF count <= 0 THEN h
    ELSE SetParents([h EXCEPT ![Get(h[n].children, target)].parent = n],
                    n, target + 1, count - 1)

\* `start` is the value to insert when neighbor is null, else the index in
\* neighbor of the first child to move
moveFrom(t, n, neighbor, target, start, count) ==
    LET \* Make room in target node
        roomed(t0) ==
            IF t0.err = "" /\ t0.h[n].childCount + count > Len(t0.h[n].children)
            THEN setCapacity(t0, n, Len(t0.h[n].children) * 2) ELSE t0
        \* Copy the children
        copied(t1) ==
            IF t1.err # "" THEN t1
            ELSE LET cc == t1.h[n].childCount
                     shifted == copyWithin(t1.h[n].children, target + count, target,
                                           Max(target + count, cc))
                     len == Len(shifted)
                     \* the writes that land inside the sealed array
                     written == [i \in 1..len |->
                                   IF i - 1 >= target /\ i - 1 < target + count
                                   THEN IF neighbor # NULL
                                        THEN Get(t1.h[neighbor].children, start + (i - 1 - target))
                                        ELSE start
                                   ELSE shifted[i]]
                     t2 == [t1 EXCEPT !.h[n].children = written,
                                      !.h[n].childCount = cc + count]
                 IN  IF target + count > len
                     THEN Throw(Tag(t2, "sealedWrite"), "TypeError: sealed") ELSE t2
        \* Remove the original references
        wiped(t2) == IF neighbor # NULL THEN wipe(t2, neighbor, start, start + count) ELSE t2
        sized(t3) ==
            IF variant = "I" THEN updateTreeSize(t3, n, target, target + count, 1) ELSE t3
        \* Set parent link(s)
        parented(t4) ==
            IF t4.err # "" \/ isLeaf(t4.h, n) THEN t4
            ELSE IF \E i \in target..(target + count - 1) : ~IsNode(Get(t4.h[n].children, i))
            THEN Throw(t4, "TypeError: null")
            ELSE [t4 EXCEPT !.h = SetParents(t4.h, n, target, count)]
        \* Update key if first item changed
        keyed(t5) == IF variant = "V" /\ target = 0 THEN updateKey(t5, n) ELSE t5
    IN  keyed(parented(sized(wiped(copied(noteRoom(roomed(t), n, count))))))

moveToNext(t, n, count) ==
    IF t.err # "" THEN t
    ELSE IF t.h[n].next = NULL THEN Throw(t, "TypeError: null")
    ELSE moveFrom(t, t.h[n].next, n, 0, t.h[n].childCount - count, count)

\* seeded fault: one slot fewer is moved than asked for
moveFromNextButOne(t, n, count) ==
    IF t.err # "" THEN t
    ELSE IF t.h[n].next = NULL THEN Throw(t, "TypeError: null")
    ELSE moveFrom(t, n, t.h[n].next, t.h[n].childCount, 0, count - 1)

moveFromNext(t, n, count) ==
    IF t.err # "" THEN t
    ELSE IF t.h[n].next = NULL THEN Throw(t, "TypeError: null")
    ELSE moveFrom(t, n, t.h[n].next, t.h[n].childCount, 0, count)

\* seeded fault: the slot is cleared, the count of used slots is kept
basicRemoveKeepsCount(t, n, idx) ==
    IF t.err # "" THEN t
    ELSE [t EXCEPT !.h[n].children[idx + 1] = NULL]

basicRemove(t, n, idx) ==
    IF t.err # "" THEN t
    ELSE IF ~isLeaf(t.h, n)
    THEN LET c == Get(t.h[n].children, idx)
         IN  IF ~IsNode(c) THEN Throw(t, "TypeError: null")
             ELSE \* Take node out of the level's linked list
                  LET prev == t.h[c].prev
                      next == t.h[c].next
                      h1 == IF prev # NULL THEN [t.h EXCEPT ![prev].next = next] ELSE t.h
                      h2 == IF next # NULL THEN [h1 EXCEPT ![next].prev = prev] ELSE h1
                  IN  wipe([t EXCEPT !.h = h2], n, idx, idx + 1)
    ELSE wipe(t, n, idx, idx + 1)

basicInsert(t, n, idx, value) ==
    LET \* Insert node in the level's linked list
        linked(t1) ==
            IF t1.err # "" \/ ~IsNode(value) THEN t1
            ELSE LET ch == t1.h[n].children
                     viaPrev == idx > 0
                     viaNext == idx = 0 /\ t1.h[n].childCount > 1
                 IN  IF \/ viaPrev /\ ~IsNode(Get(ch, idx - 1))
                        \/ viaNext /\ ~IsNode(Get(ch, 1))
                     THEN Throw(t1, "TypeError: null")
                     ELSE LET prev == IF viaPrev THEN Get(ch, idx - 1)
                                      ELSE IF viaNext THEN t1.h[Get(ch, 1)].prev
                                      ELSE t1.h[value].prev
                              next == IF viaPrev THEN t1.h[prev].next
                                      ELSE IF viaNext THEN Get(ch, 1)
                                      ELSE t1.h[value].next
                              h1 == [t1.h EXCEPT ![value].prev = prev, ![value].next = next]
                              h2 == IF prev # NULL THEN [h1 EXCEPT ![prev].next = value] ELSE h1
                              h3 == IF next # NULL THEN [h2 EXCEPT ![next].prev = value] ELSE h2
                          IN  [t1 EXCEPT !.h = h3]
    IN  linked(moveFrom(t, n, NULL, idx, value, 1))

\* <<left, right>>, right is null when the node has no sibling at all
pairWithSmallest(h, n) ==
    IF h[n].prev # NULL
       /\ (h[n].next = NULL \/ h[h[n].next].childCount > h[h[n].prev].childCount)
    THEN <<h[n].prev, n>> ELSE <<n, h[n].next>>

\* ------------------------------------------------------------------ i.js

\* seeded fault: an offset past the end is clamped to the last item
normaliseToLast(size, offset) ==
    IF offset < 0 THEN Max(0, size + offset) ELSE Min(offset, Max(0, size - 1))

normalise(size, offset) ==
    IF offset < 0 THEN Max(0, size + offset) ELSE Min(offset, size)

\* the inner loop of locate: <<child, offset>>, child is null when the scan
\* runs off the node
RECURSIVE scanChildren(_, _, _, _)
scanChildren(h, node, idx, offset) ==
    LET child == Get(h[node].children, idx)
    IN  IF ~IsNode(child) THEN <<NULL, offset>>
        ELSE IF offset > h[child].treeSize
                \/ (offset = h[child].treeSize /\ h[child].next # NULL)
        THEN scanChildren(h, node, idx + 1, offset - h[child].treeSize)
        ELSE <<child, offset>>

RECURSIVE descend(_, _, _)
descend(h, node, offset) ==
    IF node = NULL \/ isLeaf(h, node) THEN <<node, offset>>
    ELSE LET r == scanChildren(h, node, 0, offset)
         IN  descend(h, r[1], r[2])

\* <<node, index>>; node is null when locate itself throws (child.treeSize
\* of a child that is not there)
locate(t, offset) ==
    descend(t.h, t.root, normalise(t.h[t.root].treeSize, offset))

\* ------------------------------------------------------------------ v.js

\* Binary search among keys
RECURSIVE searchKeys(_, _, _, _, _)
searchKeys(h, node, key, low, high) ==
    IF low < high
    THEN LET i == (low + high) \div 2
             child == Get(h[node].children, i)
         IN  IF child = NULL THEN NULL \* .key of a slot that holds nothing
             ELSE IF key >= KeyOf(h, child)
             THEN searchKeys(h, node, key, i + 1, high)
             ELSE searchKeys(h, node, key, low, i)
    ELSE low

\* <<node, index>>; node is null when locate itself throws (the key or the
\* childCount of a child that is not there)
RECURSIVE descendKey(_, _, _)
descendKey(h, node, key) ==
    LET found == searchKeys(h, node, key, 1, h[node].childCount)
        low == found - 1
    IN  IF found = NULL THEN <<NULL, 0>>
        ELSE IF isLeaf(h, node)
        THEN IF low < h[node].childCount
             THEN IF Get(h[node].children, low) = NULL THEN <<NULL, 0>>
                  ELSE IF key > KeyOf(h, Get(h[node].children, low))
                  THEN <<node, low + 1>> ELSE <<node, low>>
             ELSE <<node, low>>
        ELSE IF ~IsNode(Get(h[node].children, low)) THEN <<NULL, 0>>
        ELSE descendKey(h, Get(h[node].children, low), key)

vLocate(t, key) == descendKey(t.h, t.root, key)

\* get, set and remove read the key of the located slot when it is within
\* childCount: that throws when locate has thrown or the slot holds nothing
keyThrows(t, loc) ==
    \/ loc[1] = NULL
    \/ loc[2] < t.h[loc[1]].childCount /\ Get(t.h[loc[1]].children, loc[2]) = NULL

\* ------------------------------------------- the loops of both Tree classes

\* seeded fault: only a node that has become empty is rebalanced
fillIsFineOnlyEmpty(h, node) ==
    h[node].parent = NULL \/ h[node].childCount > 0

\* seeded fault: the removal loop always exits after its first pass
fillIsFineAlways(h, node) ==
    h[node].parent = NULL \/ h[node].childCount >= 0

\* Exit when node's fill ratio is fine
fillIsFine(h, node) ==
    h[node].parent = NULL \/ h[node].childCount * 2 > nodeCapacity

\* seeded fault: the target fill is rounded up
shiftRoundedUp(sumCount, nodeCount) == ((sumCount + 1) \div 2) - nodeCount

\* let childCount = sumCount >> 1; let shift = childCount - node.childCount
shiftOf(sumCount, nodeCount) == (sumCount \div 2) - nodeCount

\* the boundary the console.assert of the redistribute branch names
atBoundary(sumCount, nodeCount) ==
    nodeCount * 2 = nodeCapacity /\ sumCount = nodeCapacity + 1

\* what the redistribute branch of a removal met: a shift of 0 (and whether
\* the console.assert failed), a negative shift, a shift at the boundary
noteShift(t, sumCount, nodeCount) ==
    [t EXCEPT !.tags = @ \cup
        (IF shiftOf(sumCount, nodeCount) = 0 THEN {"shift0"} ELSE {}) \cup
        (IF shiftOf(sumCount, nodeCount) = 0 /\ ~atBoundary(sumCount, nodeCount)
         THEN {"assert172"} ELSE {}) \cup
        (IF shiftOf(sumCount, nodeCount) < 0 THEN {"shiftNegative"} ELSE {}) \cup
        (IF shiftOf(sumCount, nodeCount) # 0 /\ atBoundary(sumCount, nodeCount)
         THEN {"shiftAtBoundary"} ELSE {})]

\* children.slice(0, childCount)
Used(nd) == SubSeq(nd.children, 1, Min(nd.childCount, Len(nd.children)))

\* what a merge that has returned left behind: the right node not emptied,
\* or the left node not holding its slots followed by those of the right
noteMerge(pre, post, left, right) ==
    IF post.err # "" THEN post
    ELSE [post EXCEPT !.tags = @ \cup
            (IF post.h[right].childCount # 0 \/ post.h[right].treeSize # 0
             THEN {"rightNotEmpty"} ELSE {}) \cup
            (IF Used(post.h[left]) # Used(pre.h[left]) \o Used(pre.h[right])
             THEN {"mergeOrder"} ELSE {})]

\* what basicRemove on an internal node did: it unlinked a child, and it
\* may have changed the treeSize of the node or of an ancestor
noteUnlink(pre, post, node) ==
    IF post.err # "" \/ isLeaf(pre.h, node) THEN post
    ELSE [post EXCEPT !.tags = @ \cup {"unlink"} \cup
            (IF \E n \in 1..Len(pre.h) : post.h[n].treeSize # pre.h[n].treeSize
             THEN {"sizeChanged"} ELSE {})]

\* the while (true) loop of removeItemAt / remove
RECURSIVE removeLoop(_, _, _)
removeLoop(t, node, idx) ==
    LET \* console.assert(node.isLeaf() || node.children[index].treeSize === 0)
        c == Get(t.h[node].children, idx)
        asserted == variant = "V" \/ isLeaf(t.h, node) \/ (IsNode(c) /\ t.h[c].treeSize = 0)
        \* Prepare to delete right node
        ascend(t2, right) ==
            IF t2.err # "" THEN t2
            ELSE IF t2.h[right].parent = NULL THEN Throw(t2, "TypeError: null")
            ELSE removeLoop(t2, t2.h[right].parent, index(t2.h, right))
        rebalance(t1) ==
            IF t1.err # "" THEN t1
            ELSE IF fillIsFine(t1.h, node) THEN t1
            ELSE
            LET pair == pairWithSmallest(t1.h, node)
                left == pair[1]
                right == pair[2]
            IN  IF left = NULL \/ right = NULL
                THEN \* A node with no siblings? Must become the root!
                     Tag([t1 EXCEPT !.root = node, !.h[node].parent = NULL], "demote")
                ELSE
                LET sumCount == t1.h[left].childCount + t1.h[right].childCount
                    shift == shiftOf(sumCount, t1.h[node].childCount)
                    noted == noteShift(t1, sumCount, t1.h[node].childCount)
                IN  IF sumCount > nodeCapacity
                    THEN \* redistribute
                         IF shift = 0
                         THEN \* Boundary case: a redistribution would bring no improvement
                              noted
                         ELSE IF node = left
                         THEN moveFromNext(Tag(noted, "redistribute"), left, shift)
                         ELSE moveToNext(Tag(noted, "redistribute"), left, shift)
                    ELSE \* Merge: move all data from the right to the left
                         ascend(noteMerge(t1, moveFromNext(Tag(t1, "merge"), left,
                                                           t1.h[right].childCount),
                                          left, right),
                                right)
    IN  rebalance(noteUnlink(t, basicRemove(IF asserted THEN t ELSE Tag(t, "assert150"),
                                            node, idx),
                             node))

\* seeded fault: the next pass stays at the node that was split
reascendSameNode(h, node, sibling) ==
    <<node, index(h, node) + 1, sibling>>

\* Prepare for inserting the sibling node into the tree: <<node, index,
\* value>> of the next pass
reascend(h, node, sibling) ==
    <<h[node].parent, index(h, node) + 1, sibling>>

\* seeded fault: an item that falls between the two nodes always goes left
insertInRightStrict(joinedIndex, lc, rc) == joinedIndex > lc

\* joinedIndex > left.childCount ||
\* joinedIndex === left.childCount && left.childCount > right.childCount
insertInRight(joinedIndex, lc, rc) ==
    joinedIndex > lc \/ (joinedIndex = lc /\ lc > rc)

\* sequence a with value x put in at index i (counted from 0)
PutIn(a, i, x) == SubSeq(a, 1, i) \o <<x>> \o SubSeq(a, i + 1, Len(a))

\* what a redistribution of an insertion left behind: a throw, a negative
\* number of slots moved, a node allocated, counts that do not add up, are
\* not balanced or exceed nodeCapacity, contents that are not the old ones
\* with the value put in at joinedIndex
noteRedistribute(pre, post, left, right, joinedIndex, value, moved) ==
    IF post.err # ""
    THEN [post EXCEPT !.tags = @ \cup {"redistributeThrew"}]
    ELSE [post EXCEPT !.tags = @ \cup
            (IF moved < 0 THEN {"movedNegative"} ELSE {}) \cup
            (IF Len(post.h) # Len(pre.h) THEN {"redistributeAllocated"} ELSE {}) \cup
            (IF post.h[left].childCount + post.h[right].childCount
                    # pre.h[left].childCount + pre.h[right].childCount + 1
             THEN {"sumWrong"} ELSE {}) \cup
            (IF post.h[left].childCount - post.h[right].childCount \notin {-1, 0, 1}
             THEN {"unbalanced"} ELSE {}) \cup
            (IF post.h[left].childCount > nodeCapacity \/ post.h[right].childCount > nodeCapacity
             THEN {"overfull"} ELSE {}) \cup
            (IF Used(post.h[left]) \o Used(post.h[right])
                    # PutIn(Used(pre.h[left]) \o Used(pre.h[right]), joinedIndex, value)
             THEN {"contentWrong"} ELSE {})]

\* seeded fault: the donated item becomes the first slot of prev
leftDonationAtFront(t, prev, value) ==
    basicInsert(Tag(t, "leftDonate"), prev, 0, value)

\* return node.prev.basicInsert(node.prev.childCount, value)
leftDonation(t, prev, value) ==
    basicInsert(Tag(t, "leftDonate"), prev, t.h[prev].childCount, value)

\* seeded fault: the new root is allocated with four slots
newRootOfFour == Node(4)

\* this.root = new Node(2)
newRoot == Node(2)

\* the while (node.childCount === this.nodeCapacity) loop of insertItemAt /
\* set, with the basicInsert that follows it
RECURSIVE insertLoop(_, _, _, _)
insertLoop(t, node, idx, value) ==
    IF t.err # "" THEN t
    ELSE IF node = NULL THEN Throw(t, "TypeError: null")
    ELSE IF t.h[node].childCount # nodeCapacity THEN basicInsert(t, node, idx, value)
    ELSE
    LET prev == t.h[node].prev
        pair == pairWithSmallest(t.h, node)
        left == pair[1]
        right == pair[2]
        joinedIndex == IF left = node THEN idx ELSE t.h[left].childCount + idx
        sumCount == t.h[left].childCount + t.h[right].childCount + 1
        \* after a redistribution: insert in the left or the right node
        placed(t1) ==
            IF t1.err # "" THEN t1
            ELSE LET lc == t1.h[left].childCount
                     rc == t1.h[right].childCount
                 IN  IF insertInRight(joinedIndex, lc, rc)
                     THEN basicInsert(t1, right, joinedIndex - lc, value)
                     ELSE basicInsert(t1, left, joinedIndex, value)
        childCount == t.h[node].childCount \div 2
        \* Create a new node that will later become the right sibling
        sibling == Len(t.h) + 1
        \* Move half of node's data to it
        halved(t0) ==
            moveFrom(t0, sibling, node, 0, childCount, childCount)
        \* Insert the value in either the current node or the new one
        inserted(t1) ==
            IF t1.err # "" THEN t1
            ELSE IF idx > t1.h[node].childCount
            THEN basicInsert(t1, sibling, idx - t1.h[node].childCount, value)
            ELSE basicInsert(t1, node, idx, value)
        \* Is this the root? ...then first create a parent
        promoted(t2) ==
            IF t2.err = "" /\ t2.h[node].parent = NULL
            THEN basicInsert(Tag([t2 EXCEPT !.h = Append(t2.h, newRoot),
                                            !.root = Len(t2.h) + 1], "promote"),
                             Len(t2.h) + 1, 0, node)
            ELSE t2
        \* Prepare for inserting the sibling node into the tree
        ascend(t3) ==
            IF t3.err # "" THEN t3
            ELSE insertLoop(t3, reascend(t3.h, node, sibling)[1],
                            reascend(t3.h, node, sibling)[2],
                            reascend(t3.h, node, sibling)[3])
    IN  IF idx = 0 /\ prev # NULL /\ t.h[prev].childCount < nodeCapacity
        THEN leftDonation(t, prev, value)
        \* Check whether we can redistribute (to avoid a split)
        ELSE IF node # t.root /\ right = NULL
        THEN Throw(Tag(t, "noSibling"), "TypeError: null")
        ELSE IF node # t.root /\ sumCount <= 2 * nodeCapacity
        THEN LET joined == sumCount \div 2
                 toLeft == joined - t.h[left].childCount
                           - (IF joinedIndex < joined THEN 1 ELSE 0)
                 toRight == joined - t.h[right].childCount
                            - (IF idx >= sumCount - joined THEN 1 ELSE 0)
             IN  IF node = right
                 THEN \* redistribute to the left
                      noteRedistribute(t,
                          placed(moveFromNext(Tag(t, "redistribute"), left, toLeft)),
                          left, right, joinedIndex, value, toLeft)
                 ELSE \* redistribute to the right
                      noteRedistribute(t,
                          placed(moveToNext(Tag(t, "redistribute"), left, toRight)),
                          left, right, joinedIndex, value, toRight)
        ELSE \* Cannot redistribute: split node
             ascend(promoted(inserted(halved(
                 Tag([t EXCEPT !.h = Append(t.h, Node(childCount))], "split")))))

\* ------------------------------------------------------ public operations

insertItemAt(t, offset, value) ==
    LET loc == locate(t, offset)
    IN  insertLoop(t, loc[1], loc[2], value)

\* the result of getItemAt: the item, or null for undefined
getItemAt(t, offset) ==
    LET loc == locate(t, offset)
    IN  IF loc[1] # NULL /\ loc[2] < t.h[loc[1]].childCount
        THEN Get(t.h[loc[1]].children, loc[2]) ELSE NULL

\* seeded fault: a write past the end appends the value
setItemAtAppends(t, offset, value) ==
    LET loc == locate(t, offset)
    IN  IF loc[1] = NULL THEN Throw(t, "TypeError: null")
        ELSE IF loc[2] < t.h[loc[1]].childCount
        THEN Tag([t EXCEPT !.h[loc[1]].children[loc[2] + 1] = value], "overwrite")
        ELSE insertLoop(t, loc[1], loc[2], value)

setItemAt(t, offset, value) ==
    LET loc == locate(t, offset)
    IN  IF loc[1] = NULL THEN Throw(t, "TypeError: null")
        ELSE IF loc[2] < t.h[loc[1]].childCount
        THEN Tag([t EXCEPT !.h[loc[1]].children[loc[2] + 1] = value], "overwrite")
        ELSE Tag(t, "absent")

removeItemAt(t, offset) ==
    LET loc == locate(t, offset)
    IN  IF loc[1] = NULL THEN Throw(t, "TypeError: null")
        ELSE IF loc[2] >= t.h[loc[1]].childCount THEN Tag(t, "absent")
        ELSE removeLoop(Tag(t, "remove"), loc[1], loc[2])

\* the result of get: the value, or null for undefined
get(t, key) ==
    LET loc == vLocate(t, key)
        keyValue == Get(t.h[loc[1]].children, loc[2])
    IN  IF ~keyThrows(t, loc) /\ loc[2] < t.h[loc[1]].childCount
           /\ KeyOfItem(keyValue) = key
        THEN ValueOfItem(keyValue) ELSE NULL

\* seeded fault: a key already present is inserted again
setInsertsAgain(t, key, value) ==
    LET loc == vLocate(t, key)
    IN  IF keyThrows(t, loc) THEN Throw(t, "TypeError: null")
        ELSE insertLoop(t, loc[1], loc[2], KeyValue(key, value))

set(t, key, value) ==
    LET loc == vLocate(t, key)
    IN  IF keyThrows(t, loc) THEN Throw(t, "TypeError: null")
        ELSE IF loc[2] < t.h[loc[1]].childCount
           /\ KeyOfItem(Get(t.h[loc[1]].children, loc[2])) = key
        THEN \* already present: update the value
             Tag([t EXCEPT !.h[loc[1]].children[loc[2] + 1] = KeyValue(key, value)], "update")
        ELSE insertLoop(t, loc[1], loc[2], KeyValue(key, value))

\* seeded fault: the key of the located slot is not compared
removeAnyKey(t, key) ==
    LET loc == vLocate(t, key)
    IN  IF keyThrows(t, loc) THEN Throw(t, "TypeError: null")
        ELSE IF loc[2] >= t.h[loc[1]].childCount
        THEN Tag(t, "absent")
        ELSE removeLoop(Tag(t, "remove"), loc[1], loc[2])

remove(t, key) ==
    LET loc == vLocate(t, key)
    IN  IF keyThrows(t, loc) THEN Throw(t, "TypeError: null")
        ELSE IF loc[2] >= t.h[loc[1]].childCount
           \/ KeyOfItem(Get(t.h[loc[1]].children, loc[2])) # key
        THEN Tag(t, "absent") \* not found
        ELSE removeLoop(Tag(t, "remove"), loc[1], loc[2])

\* ------------------------------------------------------------ the heap

\* Objects have no address: the Nodes that can still be reached from the
\* Tree (through any field) are numbered in the order a traversal from
\* Tree.root meets them; those that cannot are garbage.
RECURSIVE ChildNodes(_, _)
ChildNodes(h, level) ==
    IF level = <<>> THEN <<>>
    ELSE SelectSeq(h[Head(level)].children, IsNode) \o ChildNodes(h, Tail(level))

RECURSIVE LevelOrder(_, _)
LevelOrder(h, level) ==
    IF level = <<>> THEN <<>> ELSE level \o LevelOrder(h, ChildNodes(h, level))

Refs(nd) ==
    SelectSeq(nd.children, IsNode) \o SelectSeq(<<nd.parent, nd.prev, nd.next>>, IsNode)

RECURSIVE Visit(_, _, _)
Visit(h, queue, seen) ==
    IF queue = <<>> THEN seen
    ELSE LET n == Head(queue)
         IN  IF \E i \in 1..Len(seen) : seen[i] = n
             THEN Visit(h, Tail(queue), seen)
             ELSE Visit(h, Tail(queue) \o Refs(h[n]), Append(seen, n))

Canon(t) ==
    LET tree == LevelOrder(t.h, <<t.root>>)
        live == {tree[i] : i \in 1..Len(tree)}
        \* the rule: every Node is met once and no field leads out of the tree
        closed == /\ Cardinality(live) = Len(tree)
                  /\ t.first \in live
                  /\ \A n \in live : {t.h[n].parent, t.h[n].prev, t.h[n].next} \subseteq live \cup {NULL}
        order == IF closed THEN tree ELSE Visit(t.h, tree \o <<t.first>>, <<>>)
        at == [x \in 1..Len(t.h) |->
                 IF \E i \in 1..Len(order) : order[i] = x
                 THEN CHOOSE i \in 1..Len(order) : order[i] = x ELSE NULL]
        new(x) == IF IsNode(x) THEN at[x] ELSE x
    IN  \* a call that took none of these branches has left every link as it was
        IF t.err = "" /\ t.tags \cap {"split", "merge", "demote", "redistribute"} = {} THEN t
        ELSE IF order = [i \in 1..Len(t.h) |-> i] THEN t
        ELSE [t EXCEPT
                !.h = [i \in 1..Len(order) |->
                         LET nd == t.h[order[i]]
                         IN  [nd EXCEPT !.children = [j \in 1..Len(nd.children) |-> new(nd.children[j])],
                                        !.parent = new(@), !.prev = new(@), !.next = new(@)]],
                !.root = new(@), !.first = new(@)]

\* ------------------------------------------------------- the test harness

Caps == {2, 4}
Values == 1..NumVals
Keys == 1..MaxKey

\* the Tree as the running call finds it
Tree == [h |-> heap, root |-> root, first |-> first, err |-> "", tags |-> {}]

\* Array.prototype.splice(start, ...) normalises start like locate does
spliceInsert(a, offset, value) ==
    LET n == normalise(Len(a), offset)
    IN  SubSeq(a, 1, n) \o <<value>> \o SubSeq(a, n + 1, Len(a))

spliceDelete(a, offset) ==
    LET n == normalise(Len(a), offset)
    IN  SubSeq(a, 1, n) \o SubSeq(a, n + 2, Len(a))

overwrite(a, offset, value) ==
    LET n == normalise(Len(a), offset)
    IN  IF n < Len(a) THEN [a EXCEPT ![n + 1] = value] ELSE a

\* every position, the end, one offset past the end and one negative offset
Offsets == -1..(Len(arr) + 1)

\* the number of payloads of the reference whose value is not 1
Marked(ref) == Cardinality({i \in DOMAIN ref : ref[i] \notin {NULL, 1, -1}})

\* the call returns (or throws): the Tree and the heap are what it left
Returns(t) ==
    LET with(c) == /\ heap' = c.h
                   /\ root' = c.root
                   /\ first' = c.first
                   /\ err' = c.err
                   /\ last' = c.tags
    IN  /\ with(Canon(t))
        /\ UNCHANGED <<nodeCapacity, variant>>

Init ==
    /\ heap = <<Node(1)>>
    /\ root = 1
    /\ first = 1
    /\ nodeCapacity \in Caps
    /\ variant \in {"I", "V"}
    /\ err = ""
    /\ arr = <<>>
    /\ map = [k \in Keys |-> NULL]
    /\ last = {}

InsertItemAt ==
    /\ variant = "I" /\ err = ""
    /\ Len(arr) < (IF nodeCapacity % 2 = 1 THEN MaxOddItems ELSE MaxItems)
    /\ \E offset \in Offsets, v \in Values :
          /\ Marked(spliceInsert(arr, offset, -v)) <= MaxMarked
          /\ Returns(insertItemAt(Tree, offset, -v))
          /\ arr' = spliceInsert(arr, offset, -v)
    /\ UNCHANGED map

GetItemAt ==
    /\ variant = "I" /\ err = ""
    /\ \E offset \in Offsets :
          Returns(IF locate(Tree, offset)[1] = NULL THEN Throw(Tree, "TypeError: null")
                  ELSE Tag(Tree, IF getItemAt(Tree, offset) = NULL
                                 THEN "undefined" ELSE "value"))
    /\ UNCHANGED <<arr, map>>

SetItemAt ==
    /\ variant = "I" /\ err = ""
    /\ \E offset \in Offsets, v \in Values :
          /\ Marked(overwrite(arr, offset, -v)) <= MaxMarked
          /\ Returns(setItemAt(Tree, offset, -v))
          /\ arr' = overwrite(arr, offset, -v)
    /\ UNCHANGED map

RemoveItemAt ==
    /\ variant = "I" /\ err = ""
    /\ \E offset \in Offsets :
          /\ Returns(removeItemAt(Tree, offset))
          /\ arr' = spliceDelete(arr, offset)
    /\ UNCHANGED map

VGet ==
    /\ variant = "V" /\ err = ""
    /\ \E key \in Keys :
          Returns(IF keyThrows(Tree, vLocate(Tree, key)) THEN Throw(Tree, "TypeError: null")
                  ELSE Tag(Tree, IF get(Tree, key) = NULL THEN "undefined" ELSE "value"))
    /\ UNCHANGED <<arr, map>>

VSet ==
    /\ variant = "V" /\ err = ""
    /\ \E key \in Keys, v \in Values :
          /\ Marked([map EXCEPT ![key] = v]) <= MaxMarked
          /\ Returns(set(Tree, key, v))
          /\ map' = [map EXCEPT ![key] = v]
    /\ UNCHANGED arr

VRemove ==
    /\ variant = "V" /\ err = ""
    /\ \E key \in Keys :
          /\ Returns(remove(Tree, key))
          /\ map' = [map EXCEPT ![key] = NULL]
    /\ UNCHANGED arr

Next ==
    \/ InsertItemAt
    \/ GetItemAt
    \/ SetItemAt
    \/ RemoveItemAt
    \/ VGet
    \/ VSet
    \/ VRemove

Spec == Init /\ [][Next]_vars

\* new Tree(nodeCapacity) of i.js with an odd nodeCapacity
OddCaps == {3}

InitOdd ==
    /\ heap = <<Node(1)>>
    /\ root = 1
    /\ first = 1
    /\ nodeCapacity \in OddCaps
    /\ variant = "I"
    /\ err = ""
    /\ arr = <<>>
    /\ map = [k \in Keys |-> NULL]
    /\ last = {}

NextI ==
    \/ InsertItemAt
    \/ GetItemAt
    \/ SetItemAt
    \/ RemoveItemAt

SpecOdd == InitOdd /\ [][NextI]_vars

\* new Tree(4) of i.js, filled with one and the same value until its internal
\* nodes split and merge
DeepCaps == {4}

InitDeep ==
    /\ heap = <<Node(1)>>
    /\ root = 1
    /\ first = 1
    /\ nodeCapacity \in DeepCaps
    /\ variant = "I"
    /\ err = ""
    /\ arr = <<>>
    /\ map = [k \in Keys |-> NULL]
    /\ last = {}

InsertSame ==
    /\ variant = "I" /\ err = "" /\ Len(arr) < MaxDeepItems
    /\ \E offset \in Offsets :
          /\ Returns(insertItemAt(Tree, offset, -1))
          /\ arr' = spliceInsert(arr, offset, -1)
    /\ UNCHANGED map

NextDeep ==
    \/ InsertSame
    \/ RemoveItemAt

SpecDeep == InitDeep /\ [][NextDeep]_vars

\* ------------------------------------------------------------- iteration

\* Tree.prototype[Symbol.iterator]: slots [0, childCount) of every leaf on
\* the next chain from Tree.first (a slot outside the array reads undefined)
RECURSIVE walk(_, _, _)
walk(h, node, fuel) ==
    IF node = NULL \/ fuel = 0 THEN <<>>
    ELSE [i \in 1..h[node].childCount |-> Get(h[node].children, i - 1)]
         \o walk(h, h[node].next, fuel - 1)

Iterate == walk(heap, first, Len(heap))

\* [...map].sort((a, b) => a[0] - b[0]) as KeyValues
RECURSIVE sortedEntries(_)
sortedEntries(k) ==
    IF k > MaxKey THEN <<>>
    ELSE (IF map[k] = NULL THEN <<>> ELSE <<KeyValue(k, map[k])>>) \o sortedEntries(k + 1)

\* ------------------------------------------------------------ the verifier

\* the breadth first traversal of verify: the nodes of every level, in
\* child order
RECURSIVE LevelsFrom(_, _)
LevelsFrom(h, level) ==
    IF level = <<>> THEN <<>> ELSE <<level>> \o LevelsFrom(h, ChildNodes(h, level))

Levels == LevelsFrom(heap, <<root>>)

Height == Len(Levels)

InTree == UNION {{Levels[k][i] : i \in 1..Len(Levels[k])} : k \in 1..Height}

\* "prev link incorrect", "next link incorrect", "last node in level has a
\* next reference"
Chain(level) ==
    /\ heap[level[1]].prev = NULL
    /\ heap[level[Len(level)]].next = NULL
    /\ \A i \in 1..(Len(level) - 1) :
          heap[level[i]].next = level[i + 1] /\ heap[level[i + 1]].prev = level[i]

\* the key of the leftmost KeyValue below node n
RECURSIVE FirstKey(_, _)
FirstKey(h, n) ==
    LET c == Get(h[n].children, 0)
    IN  IF IsNode(c) THEN FirstKey(h, c) ELSE IF c = NULL THEN NULL ELSE KeyOfItem(c)

\* ---------------------------------------------------------------- claims

\* C1: I-tree: after each insertItemAt / setItemAt / removeItemAt call, in any
\* interleaving, walking from Tree.first along next yields exactly the flat
\* array that received the same splice-insert / overwrite / splice-delete.
C1_IterationIsArray == variant = "I" => Iterate = arr

\* C2: V-tree: after each set / remove call, in any interleaving, iteration
\* yields the entries of the reference map in strictly ascending key order,
\* no key repeated.
C2_IterationIsSortedMap ==
    variant = "V" =>
        /\ Iterate = sortedEntries(1)
        /\ \A i \in 1..(Len(Iterate) - 1) : KeyOfItem(Iterate[i]) < KeyOfItem(Iterate[i + 1])

\* C3: every public operation called on a tree reached through earlier
\* public operations returns normally: no call throws.
C3_NoCallThrows == err = ""

\* C4: when a removal has merged, the call returns with a root that has no
\* parent and is a leaf or has at least two children (a root left with a
\* single child has been replaced by that child).
C4_RootDemoted ==
    "merge" \in last =>
        /\ heap[root].parent = NULL
        /\ isLeaf(heap, root) \/ heap[root].childCount >= 2

\* C5: after every public operation every node other than Tree.root holds
\* at least half of nodeCapacity: childCount * 2 >= nodeCapacity.
C5_FillBound ==
    \A n \in InTree \ {root} : heap[n].childCount * 2 >= nodeCapacity

\* C5 witness: a removal has just redistributed or merged in a tree of height
\* three, and a leaf and an internal node other than the root sit exactly at
\* the bound.
C5_Witness ==
    /\ err = ""
    /\ last \cap {"merge", "redistribute"} # {}
    /\ Height >= 3
    /\ \E n \in InTree \ {root} : isLeaf(heap, n) /\ heap[n].childCount * 2 = nodeCapacity
    /\ \E n \in InTree \ {root} : ~isLeaf(heap, n) /\ heap[n].childCount * 2 = nodeCapacity

\* C6: after every public operation the prev/next chain of every level
\* visits exactly the nodes of that level in child order, across parents,
\* from a node without prev to a node without next, and the bottom chain
\* starts at Tree.first.
C6_LevelChains ==
    /\ \A k \in 1..Height : Chain(Levels[k])
    /\ Levels[Height][1] = first

\* C7: I-tree: after every public operation a leaf has treeSize = childCount,
\* an internal node has treeSize = the sum of its children's treeSize, and
\* root.treeSize is the number of items iteration yields.
C7_TreeSize ==
    variant = "I" =>
        /\ \A n \in InTree :
              heap[n].treeSize =
                 IF isLeaf(heap, n) THEN heap[n].childCount
                 ELSE SumTreeSize(heap, heap[n].children, 0, heap[n].childCount)
        /\ heap[root].treeSize = Len(Iterate)

\* C8: V-tree: after every set / remove on a non-empty tree the key of every
\* node is children[0].key, the key of the leftmost KeyValue of its subtree.
C8_FirstKey ==
    variant = "V" /\ heap[root].childCount > 0 =>
        \A n \in InTree :
            /\ heap[n].key = KeyOf(heap, Get(heap[n].children, 0))
            /\ heap[n].key = FirstKey(heap, n)

\* C8 witness: in a V-tree of height three a remove has just merged, the
\* smallest key ever set (1) is gone, and an internal node that is not the
\* first child of the root carries the first key of its own subtree.
C8_Witness ==
    /\ variant = "V" /\ err = ""
    /\ "merge" \in last
    /\ Height >= 3
    /\ heap[root].key > 1
    /\ \E n \in InTree : /\ ~isLeaf(heap, n)
                         /\ heap[n].prev # NULL
                         /\ heap[n].key > heap[root].key

C10_SlotArray ==
    \A n \in InTree :
        /\ heap[n].childCount <= Len(heap[n].children)
        /\ Len(heap[n].children) <= nodeCapacity
        /\ \A i \in 1..Len(heap[n].children) :
              (i > heap[n].childCount) <=> (heap[n].children[i] = NULL)
        /\ heap[n].childCount > 0 => heap[n].childCount * 2 > Len(heap[n].children)

\* 2^k for some k >= 0
RECURSIVE IsPowerOfTwo(_)
IsPowerOfTwo(n) == n = 1 \/ (n > 1 /\ n % 2 = 0 /\ IsPowerOfTwo(n \div 2))

\* C11: in every reachable state the slot array of every node has a length
\* that is a power of two in [1, nodeCapacity].
C11_PowerOfTwoArrays ==
    \A n \in InTree :
        IsPowerOfTwo(Len(heap[n].children)) /\ Len(heap[n].children) <= nodeCapacity

\* C12: with an odd nodeCapacity >= 3, after any sequence of insertions and
\* removals iteration yields the reference sequence in order and the slot
\* array of every node has length <= nodeCapacity.
C12_OddCapacity ==
    nodeCapacity % 2 = 1 /\ nodeCapacity >= 3 =>
        /\ Iterate = arr
        /\ \A n \in InTree : Len(heap[n].children) <= nodeCapacity

\* C13: after every public operation Tree.root.parent is null and, for every
\* internal node p and every i in [0, p.childCount), p.children[i] is a Node
\* whose parent is p.
C13_Parentage ==
    /\ heap[root].parent = NULL
    /\ \A p \in InTree : ~isLeaf(heap, p) =>
          \A i \in 0..(heap[p].childCount - 1) :
              /\ IsNode(Get(heap[p].children, i))
              /\ heap[Get(heap[p].children, i)].parent = p

\* children.slice(0, childCount): the used slots the array has
Slice(nd) == SubSeq(nd.children, 1, Min(nd.childCount, Len(nd.children)))

\* the depths at which the subtree of n, itself at depth d, has its leaves
RECURSIVE LeafDepths(_, _, _)
LeafDepths(h, n, d) ==
    IF isLeaf(h, n) THEN {d}
    ELSE UNION {LeafDepths(h, Slice(h[n])[i], d + 1) :
                   i \in {j \in 1..Len(Slice(h[n])) : IsNode(Slice(h[n])[j])}}

\* C14: after every public operation all leaves are at the same depth below
\* Tree.root, no node at leaf depth holds a Node in its slots and every node
\* above leaf depth holds only Nodes.
C14_Balance ==
    /\ LeafDepths(heap, root, 1) = {Height}
    /\ \A k \in 1..Height : \A i \in 1..Len(Levels[k]) :
          \A j \in 1..Len(Slice(heap[Levels[k][i]])) :
              IsNode(Slice(heap[Levels[k][i]])[j]) <=> (k < Height)

\* C14 witness: a tree of height three whose leaves have just been
\* rebalanced by a removal and whose root has more than one child.
C14_Witness ==
    /\ err = ""
    /\ Height >= 3
    /\ last \cap {"merge", "redistribute"} # {}
    /\ heap[root].childCount >= 2
    /\ Cardinality({n \in InTree : isLeaf(heap, n)}) >= 4

\* what iteration yields on the tree a call has left
IterateOf(t) == walk(t.h, t.first, Len(t.h))

\* every offset from two before the first item to two past the end
AnyOffsets == (0 - Len(arr) - 2)..(Len(arr) + 2)

\* C15: I-tree: an offset is normalised to n = max(0, size + offset) when it
\* is negative and to n = min(offset, size) otherwise, size being
\* root.treeSize; insertItemAt(offset, v) makes v the item at position n, and
\* when n < size getItemAt(offset) returns, setItemAt(offset, v) overwrites
\* and removeItemAt(offset) deletes exactly the item at position n of the
\* iterated sequence.
C15_OffsetNormalisation ==
    variant = "I" /\ err = "" =>
        \A offset \in AnyOffsets, v \in Values :
            LET size == heap[root].treeSize
                n == IF offset < 0 THEN Max(0, size + offset) ELSE Min(offset, size)
                seq == Iterate
            IN  /\ IterateOf(insertItemAt(Tree, offset, -v))
                      = SubSeq(seq, 1, n) \o <<-v>> \o SubSeq(seq, n + 1, Len(seq))
                /\ n < size =>
                      /\ getItemAt(Tree, offset) = seq[n + 1]
                      /\ IterateOf(setItemAt(Tree, offset, -v)) = [seq EXCEPT ![n + 1] = -v]
                      /\ IterateOf(removeItemAt(Tree, offset))
                            = SubSeq(seq, 1, n) \o SubSeq(seq, n + 2, Len(seq))

\* C16 as stated: I-tree access clamps any offset to [0, size): on a
\* non-empty tree getItemAt(offset) with offset >= size returns the last
\* item, exactly as an offset below -size returns the first.
C16_AccessClamping ==
    variant = "I" /\ heap[root].treeSize > 0 =>
        \A offset \in AnyOffsets :
            LET size == heap[root].treeSize
                seq == Iterate
            IN  /\ offset >= size => getItemAt(Tree, offset) = seq[Len(seq)]
                /\ offset < 0 - size => getItemAt(Tree, offset) = seq[1]

\* C16 as the code has it: access is clamped to [0, size] like insertion.
\* On a non-empty I-tree on which a call is made, locate sends every
\* offset >= size to the position past the end of the last leaf, where
\* getItemAt returns undefined; an offset at or below -size is clamped to 0
\* and getItemAt returns the first item.
C16_PastTheEnd ==
    variant = "I" /\ err = "" /\ heap[root].treeSize > 0 =>
        \A offset \in AnyOffsets :
            LET size == heap[root].treeSize
                loc == locate(Tree, offset)
            IN  /\ offset >= size =>
                      /\ loc[1] # NULL
                      /\ heap[loc[1]].next = NULL
                      /\ loc[2] = heap[loc[1]].childCount
                      /\ getItemAt(Tree, offset) = NULL
                /\ offset <= 0 - size => getItemAt(Tree, offset) = Iterate[1]

\* C16 witness: getItemAt has just returned undefined on an I-tree of at
\* least two leaves.
C16_Witness ==
    /\ variant = "I"
    /\ err = ""
    /\ last = {"undefined"}
    /\ Len(arr) >= 3
    /\ Height >= 2

\* the value get(k) returns on the tree as it stands, for every key
Lookup == [k \in Keys |-> get(Tree, k)]

\* C17: V-tree lookup: on any reachable tree get(k) returns v if and only if
\* the most recent mutating call on key k was set(k, v), and undefined when k
\* was never set or has been removed since; get changes no part of the tree.
C17_Lookup ==
    /\ [](variant = "V" => Lookup = map)
    /\ [][VGet => UNCHANGED <<heap, root, first>>]_vars

\* the call left root, first and every node as it found them
SameTree(t) == t.h = heap /\ t.root = root /\ t.first = first

\* the keys iteration yields
KeysInTree == {KeyOfItem(Iterate[i]) : i \in 1..Len(Iterate)}

\* C18: removing what is not there mutates nothing: V-tree remove(k) for a
\* key k that is absent, and I-tree removeItemAt(offset) whose normalised
\* offset equals size, leave root, first and every node's slots, childCount,
\* slot-array length, parent, prev, next and aggregate unchanged.
C18_RemoveAbsent ==
    /\ variant = "V" =>
          \A k \in Keys \ KeysInTree : SameTree(remove(Tree, k))
    /\ variant = "I" =>
          \A offset \in AnyOffsets :
              normalise(heap[root].treeSize, offset) = heap[root].treeSize
                  => SameTree(removeItemAt(Tree, offset))

\* C18 witness: a removal has just found nothing to remove in a tree of at
\* least two levels that holds items on both sides of a gap.
C18_Witness ==
    /\ err = ""
    /\ last = {"absent"}
    /\ Height >= 2
    /\ \/ variant = "I"
       \/ \E k \in Keys \ KeysInTree :
             (k - 1) \in KeysInTree /\ (k + 1) \in KeysInTree

\* the Tree a call has left, as the next call finds it
Left(t) == [t EXCEPT !.err = "", !.tags = {}]

\* node n of heap g is node n of the heap but for the value held with key
\* k, which may have become v
OnlyValueOf(g, n, k, v) ==
    /\ [g[n] EXCEPT !.children = heap[n].children] = heap[n]
    /\ Len(g[n].children) = Len(heap[n].children)
    /\ \A i \in 1..Len(heap[n].children) :
          \/ g[n].children[i] = heap[n].children[i]
          \/ /\ isLeaf(heap, n) /\ i <= heap[n].childCount
             /\ KeyOfItem(heap[n].children[i]) = k
             /\ g[n].children[i] = KeyValue(k, v)

\* C19: V-tree update in place: set(k, v) on a key already present changes
\* only the value field of that key's KeyValue; no node's childCount,
\* slot-array length, key aggregate, parent or prev/next link changes and no
\* node is allocated; hence set(k, v) followed by set(k, v) leaves exactly
\* the state of a single set(k, v).
C19_UpdateInPlace ==
    variant = "V" =>
        \A k \in Keys \cap KeysInTree, v \in Values :
            /\ set(Tree, k, v).root = root
            /\ set(Tree, k, v).first = first
            /\ Len(set(Tree, k, v).h) = Len(heap)
            /\ \A n \in 1..Len(heap) : OnlyValueOf(set(Tree, k, v).h, n, k, v)
            /\ set(Tree, k, v).err = "" => get(Left(set(Tree, k, v)), k) = v
            /\ set(Left(set(Tree, k, v)), k, v).h = set(Tree, k, v).h
            /\ set(Left(set(Tree, k, v)), k, v).root = root
            /\ set(Left(set(Tree, k, v)), k, v).first = first

\* C19 witness: set has just updated a value in place in a tree of at least
\* two levels that holds a value other than the first.
C19_Witness ==
    /\ variant = "V"
    /\ err = ""
    /\ last = {"update"}
    /\ Height >= 2
    /\ \E i \in 1..Len(Iterate) : ValueOfItem(Iterate[i]) # 1

\* the slots of the tree that heap g holds differently: <<node, slot>>
ChangedSlots(g) ==
    {ns \in UNION {{<<n, i>> : i \in 1..Len(heap[n].children)} : n \in 1..Len(heap)} :
        g[ns[1]].children[ns[2]] # heap[ns[1]].children[ns[2]]}

\* C20: I-tree setItemAt(offset, value) makes no structural change: it
\* overwrites at most one leaf slot and leaves root, first, every childCount,
\* slot-array length, treeSize, parent and prev/next link unchanged; when
\* the normalised offset equals size it changes nothing at all.
C20_SetItemAtInPlace ==
    variant = "I" =>
        \A offset \in AnyOffsets, v \in Values :
            /\ setItemAt(Tree, offset, -v).root = root
            /\ setItemAt(Tree, offset, -v).first = first
            /\ Len(setItemAt(Tree, offset, -v).h) = Len(heap)
            /\ \A n \in 1..Len(heap) :
                  /\ [setItemAt(Tree, offset, -v).h[n] EXCEPT !.children = heap[n].children]
                        = heap[n]
                  /\ Len(setItemAt(Tree, offset, -v).h[n].children) = Len(heap[n].children)
            /\ Cardinality(ChangedSlots(setItemAt(Tree, offset, -v).h)) <= 1
            /\ \A ns \in ChangedSlots(setItemAt(Tree, offset, -v).h) :
                  isLeaf(heap, ns[1]) /\ ns[2] <= heap[ns[1]].childCount
            /\ normalise(heap[root].treeSize, offset) = heap[root].treeSize
                  => SameTree(setItemAt(Tree, offset, -v))

\* C20 witness: setItemAt has just overwritten an item of a tree of at
\* least two levels with a value the other items do not have.
C20_Witness ==
    /\ variant = "I"
    /\ err = ""
    /\ last = {"overwrite"}
    /\ Height >= 2
    /\ \E i \in 1..Len(Iterate) : Iterate[i] # -1

\* new Tree(nodeCapacity), before any call has changed it
Fresh == heap = <<Node(1)>> /\ root = 1 /\ first = 1 /\ err = ""

\* the root is a leaf that holds nothing
EmptyRootLeaf(t) ==
    /\ isLeaf(t.h, t.root)
    /\ t.h[t.root].childCount = 0
    /\ t.root = t.first

\* the root is a leaf that holds one item
SingleRootLeaf(t) ==
    /\ t.err = ""
    /\ isLeaf(t.h, t.root)
    /\ t.h[t.root].childCount = 1
    /\ t.root = t.first

\* C21: empty and single-element boundaries: on a freshly constructed tree
\* the root is a leaf with childCount 0 and root = first, iteration yields
\* nothing, getItemAt(0) and get(k) return undefined, and removeItemAt(0) and
\* remove(k) change nothing; after one insertion the root is a leaf with
\* childCount 1, a following insertion at offset 0 or at offset 1 succeeds,
\* and removing the only item returns the tree to an empty root leaf.
C21_Boundaries ==
    LET oneItem(one, v) ==
            /\ SingleRootLeaf(one)
            /\ IterateOf(one) = <<-v>>
            /\ \A o \in {0, 1}, w \in Values :
                  /\ insertItemAt(one, o, -w).err = ""
                  /\ IterateOf(insertItemAt(one, o, -w)) = spliceInsert(<<-v>>, o, -w)
            /\ removeItemAt(one, 0).err = ""
            /\ EmptyRootLeaf(removeItemAt(one, 0))
            /\ IterateOf(removeItemAt(one, 0)) = <<>>
        onePair(one, k, v) ==
            /\ SingleRootLeaf(one)
            /\ IterateOf(one) = <<KeyValue(k, v)>>
            /\ \A j \in Keys \ {k}, w \in Values :
                  /\ set(one, j, w).err = ""
                  /\ IterateOf(set(one, j, w))
                        = IF j < k THEN <<KeyValue(j, w), KeyValue(k, v)>>
                          ELSE <<KeyValue(k, v), KeyValue(j, w)>>
            /\ remove(one, k).err = ""
            /\ EmptyRootLeaf(remove(one, k))
            /\ IterateOf(remove(one, k)) = <<>>
    IN  Fresh =>
            /\ EmptyRootLeaf(Tree)
            /\ Iterate = <<>>
            /\ variant = "I" =>
                  /\ locate(Tree, 0)[1] # NULL
                  /\ getItemAt(Tree, 0) = NULL
                  /\ removeItemAt(Tree, 0).err = ""
                  /\ SameTree(removeItemAt(Tree, 0))
                  /\ \A offset \in -2..2, v \in Values :
                        oneItem(Left(insertItemAt(Tree, offset, -v)), v)
            /\ variant = "V" =>
                  \A k \in Keys :
                      /\ ~keyThrows(Tree, vLocate(Tree, k))
                      /\ get(Tree, k) = NULL
                      /\ remove(Tree, k).err = ""
                      /\ SameTree(remove(Tree, k))
                      /\ \A v \in Values : onePair(Left(set(Tree, k, v)), k, v)

\* C21 witness: a removal has just found nothing to remove in a tree that
\* is as it was constructed.
C21_Witness == Fresh /\ last = {"absent"}

\* the number of levels verify finds below root r of heap h
HeightOf(h, r) == Len(LevelsFrom(h, <<r>>))

\* C22: merge cascade: over any run of consecutive removals the height of
\* the tree never increases, and when the last remaining item is removed the
\* final state is an empty root leaf: Tree.root is a leaf with childCount 0,
\* root = first, and root has no parent, prev or next.
C22_MergeCascade ==
    LET cascade(t) ==
            /\ HeightOf(t.h, t.root) <= Height
            /\ Len(Iterate) = 1 /\ IterateOf(t) = <<>> =>
                  /\ EmptyRootLeaf(t)
                  /\ t.h[t.root].parent = NULL
                  /\ t.h[t.root].prev = NULL
                  /\ t.h[t.root].next = NULL
    IN  /\ variant = "I" => \A offset \in AnyOffsets : cascade(removeItemAt(Tree, offset))
        /\ variant = "V" => \A k \in Keys : cascade(remove(Tree, k))

\* C22 witness: a removal has just taken the last item out of the tree.
C22_Witness ==
    /\ err = ""
    /\ "remove" \in last
    /\ heap[root].childCount = 0
    /\ Iterate = <<>>

\* the call that left t took one item out of one leaf and did nothing else
\* to the structure: no other slot, count or link of any node has changed
OneItemTaken(t) ==
    /\ t.root = root /\ t.first = first /\ Len(t.h) = Len(heap)
    /\ \A n \in 1..Len(heap) :
          /\ t.h[n].parent = heap[n].parent
          /\ t.h[n].prev = heap[n].prev
          /\ t.h[n].next = heap[n].next
          /\ ~isLeaf(heap, n) =>
                Slice(t.h[n]) = Slice(heap[n]) /\ t.h[n].childCount = heap[n].childCount
    /\ \E n \in 1..Len(heap) :
          /\ isLeaf(heap, n)
          /\ \E i \in 1..Len(Slice(heap[n])) :
                Slice(t.h[n]) = SubSeq(Slice(heap[n]), 1, i - 1)
                                   \o SubSeq(Slice(heap[n]), i + 1, Len(Slice(heap[n])))
          /\ \A o \in 1..Len(heap) :
                o # n /\ isLeaf(heap, o) =>
                    Slice(t.h[o]) = Slice(heap[o]) /\ t.h[o].childCount = heap[o].childCount

RootPromoted(t) ==
    /\ t.root > Len(heap)
    /\ Len(t.h[t.root].children) = 2
    /\ t.h[t.root].childCount = 2
    /\ t.h[t.root].children[1] = root
    /\ t.h[t.root].children[2] > Len(heap)
    /\ t.h[t.root].children[2] # t.root
    /\ t.h[t.root].parent = NULL
    /\ t.h[root].parent = t.root
    /\ t.h[t.h[t.root].children[2]].parent = t.root
    /\ t.h[root].next = t.h[t.root].children[2]
    /\ t.h[t.h[t.root].children[2]].prev = root
    /\ HeightOf(t.h, t.root) = Height + 1

\* C24: root promotion: when an insertion splits the root, a new root is
\* allocated with slot-array length 2, and when the call returns it has
\* childCount = 2 with the old root at index 0 and the new sibling at index
\* 1, both having the new root as parent and linked old.next = sibling,
\* sibling.prev = old; the height grows by exactly one, and no operation
\* other than a root split ever increases the height.
C24_RootPromotion ==
    LET inserted(t) ==
            /\ "promote" \in t.tags => t.err = "" /\ RootPromoted(t)
            /\ "promote" \notin t.tags => HeightOf(t.h, t.root) <= Height
        other(t) == HeightOf(t.h, t.root) <= Height
    IN  /\ variant = "I" =>
              \A offset \in AnyOffsets, v \in Values :
                  /\ inserted(insertItemAt(Tree, offset, -v))
                  /\ other(setItemAt(Tree, offset, -v))
                  /\ other(removeItemAt(Tree, offset))
        /\ variant = "V" =>
              \A k \in Keys, v \in Values :
                  /\ inserted(set(Tree, k, v))
                  /\ other(remove(Tree, k))

\* C24 witness: an insertion has just split the root of a tree that already
\* had two levels.
C24_Witness ==
    /\ err = ""
    /\ "promote" \in last
    /\ Height >= 3
    /\ heap[root].childCount = 2

\* C25: merge empties before unlinking: in the I-tree removal loop, every
\* time basicRemove is applied to an internal node, the child being removed
\* is the right node of the merge just performed, it has childCount 0 and
\* treeSize 0 (the console.assert at the top of the loop never fails), all
\* its former slots are now in its left neighbour in their original order,
\* and removing it changes no ancestor's treeSize.
C25_MergeEmpties ==
    variant = "I" =>
        \A offset \in AnyOffsets :
            /\ removeItemAt(Tree, offset).tags
                  \cap {"assert150", "rightNotEmpty", "mergeOrder", "sizeChanged"} = {}
            /\ "unlink" \in removeItemAt(Tree, offset).tags
                  => "merge" \in removeItemAt(Tree, offset).tags

\* C25 witness: a removal from an I-tree of three levels has just merged
\* two nodes and unlinked the emptied right one from its parent.
C25_Witness ==
    /\ variant = "I"
    /\ err = ""
    /\ "unlink" \in last
    /\ "merge" \in last
    /\ Height >= 3

\* node n of heap h and the nodes above it
RECURSIVE PathUp(_, _, _)
PathUp(h, n, fuel) ==
    IF n = NULL \/ fuel = 0 THEN {} ELSE {n} \cup PathUp(h, h[n].parent, fuel - 1)

\* the items iteration yields before it comes to the node `to`
RECURSIVE walkTo(_, _, _, _)
walkTo(h, node, to, fuel) ==
    IF node = NULL \/ node = to \/ fuel = 0 THEN <<>>
    ELSE [i \in 1..h[node].childCount |-> Get(h[node].children, i - 1)]
         \o walkTo(h, h[node].next, to, fuel - 1)

\* the insertion at offset meets the left-donation shortcut: index 0 of a
\* full node whose prev exists and is not full
DonationCase(offset) ==
    LET loc == locate(Tree, offset)
    IN  /\ loc[1] # NULL
        /\ loc[2] = 0
        /\ heap[loc[1]].childCount = nodeCapacity
        /\ heap[loc[1]].prev # NULL
        /\ heap[heap[loc[1]].prev].childCount < nodeCapacity

\* C26: left-donation shortcut: when insertion targets index 0 of a full
\* node whose prev exists with prev.childCount < nodeCapacity, the item is
\* placed as the last slot of prev, the full node itself is unchanged, no
\* node is allocated and no parent's childCount changes, and the iterated
\* sequence is the same as if the item had been inserted at index 0 of the
\* full node (the aggregates of prev's ancestors are updated).
C26_LeftDonation ==
    LET donated(t, node, prev, n, v) ==
            /\ t.err = ""
            /\ Used(t.h[prev]) = Append(Used(heap[prev]), -v)
            /\ t.h[node] = heap[node]
            /\ Len(t.h) = Len(heap)
            /\ t.root = root /\ t.first = first
            /\ \A p \in 1..Len(heap) :
                  /\ ~isLeaf(heap, p) =>
                        t.h[p].childCount = heap[p].childCount
                        /\ t.h[p].children = heap[p].children
                  /\ p # prev => t.h[p].childCount = heap[p].childCount
                  /\ t.h[p].treeSize = heap[p].treeSize
                        + (IF p \in PathUp(heap, prev, Len(heap)) THEN 1 ELSE 0)
            /\ IterateOf(t) = SubSeq(Iterate, 1, n) \o <<-v>> \o SubSeq(Iterate, n + 1, Len(Iterate))
    IN  variant = "I" =>
            \A offset \in AnyOffsets, v \in Values :
                /\ DonationCase(offset) <=> "leftDonate" \in insertItemAt(Tree, offset, -v).tags
                /\ DonationCase(offset) =>
                      donated(insertItemAt(Tree, offset, -v), locate(Tree, offset)[1],
                              heap[locate(Tree, offset)[1]].prev,
                              Len(walkTo(heap, first, locate(Tree, offset)[1], Len(heap))), v)

\* C26 witness: an insertion into an I-tree has just been donated to the
\* left neighbour of the full leaf it had located.
C26_Witness ==
    /\ variant = "I"
    /\ err = ""
    /\ last = {"leftDonate"}
    /\ \E n \in InTree :
          /\ isLeaf(heap, n)
          /\ heap[n].childCount = nodeCapacity
          /\ heap[n].prev # NULL

\* what an insertion must not have met in a redistribution
RedistributeFaults ==
    {"redistributeThrew", "movedNegative", "redistributeAllocated", "sumWrong",
     "unbalanced", "overfull", "contentWrong"}

\* C27 as stated: insertion redistribute: when an insertion meets a full
\* non-root node whose pairWithSmallest partner gives left.childCount +
\* right.childCount + 1 <= 2 * nodeCapacity, the call allocates no node and
\* moves a non-negative number of slots; afterwards left.childCount +
\* right.childCount is the old sum plus one, the two counts differ by at
\* most one, neither exceeds nodeCapacity, and the contents of left followed
\* by right are the old concatenation with the new item inserted at
\* joinedIndex.
C27_CallAllocatesNone ==
    LET redistributed(t) ==
            /\ t.tags \cap RedistributeFaults = {}
            /\ "redistribute" \in t.tags => Len(t.h) = Len(heap)
    IN  /\ variant = "I" =>
              \A offset \in AnyOffsets, v \in Values :
                  redistributed(insertItemAt(Tree, offset, -v))
        /\ variant = "V" =>
              \A k \in Keys, v \in Values : redistributed(set(Tree, k, v))

\* C27 as the code has it: the redistribution itself allocates no node and
\* moves a non-negative number of slots, with the counts and contents as
\* stated; the call allocates no node when the redistribution is met before
\* any split, but a split of a lower level that the same call has made
\* before it has allocated that level's new sibling. A redistribution
\* throws on no tree on which the model makes a call.
C27_Redistribute ==
    LET redistributed(t) ==
            /\ t.tags \cap (RedistributeFaults \ {"redistributeThrew"}) = {}
            /\ err = "" => "redistributeThrew" \notin t.tags
            /\ "redistribute" \in t.tags /\ "split" \notin t.tags => Len(t.h) = Len(heap)
            /\ "redistribute" \in t.tags /\ "split" \in t.tags => Len(t.h) > Len(heap)
    IN  /\ variant = "I" =>
              \A offset \in AnyOffsets, v \in Values :
                  redistributed(insertItemAt(Tree, offset, -v))
        /\ variant = "V" =>
              \A k \in Keys, v \in Values : redistributed(set(Tree, k, v))

\* C27 witness: an insertion has just split a node and then redistributed
\* the new sibling between the full parent and the parent's neighbour.
C27_Witness ==
    /\ err = ""
    /\ "remove" \notin last
    /\ {"split", "redistribute"} \subseteq last
    /\ Height >= 3

\* C28: first-key propagation frame: in the V-tree, when a node's slot 0
\* changes, the change propagates to ancestors only while the updated node
\* remains their slot 0: every ancestor above the first one in which the
\* path's child is not at index 0 has the same key after updateKey as
\* before it (and so has that first one).
C28_KeyFrame ==
    variant = "V" =>
        \A k \in Keys, v \in Values :
            /\ set(Tree, k, v).tags \cap {"keyChangedAbove", "keyChangedAt"} = {}
            /\ remove(Tree, k).tags \cap {"keyChangedAbove", "keyChangedAt"} = {}

\* C28 witness: a call on a V-tree has just changed the key of a node that
\* is slot 0 of its parent, and has walked on past an ancestor that is not
\* slot 0 of its own parent to the nodes above it.
C28_Witness ==
    /\ variant = "V"
    /\ err = ""
    /\ {"keyWalkAbove", "keyChangedOnPath"} \subseteq last
    /\ Height >= 3

\* C29: minimum capacity: for a tree constructed with nodeCapacity = 2,
\* after any interleaved sequence of insertions and removals every
\* operation returns normally, no node with childCount 0 other than an
\* empty root leaf remains in the tree, adjacent siblings' slot-array
\* lengths sum to more than 2, and iteration equals the model sequence.
C29_MinimumCapacity ==
    nodeCapacity = 2 =>
        /\ err = ""
        /\ \A n \in InTree :
              heap[n].childCount = 0 => n = root /\ isLeaf(heap, n) /\ Height = 1
        /\ \A k \in 1..Height : \A i \in 1..(Len(Levels[k]) - 1) :
              Len(heap[Levels[k][i]].children) + Len(heap[Levels[k][i + 1]].children) > 2
        /\ variant = "I" => Iterate = arr
        /\ variant = "V" => Iterate = sortedEntries(1)

\* C30: no dangling links: after every public operation no node reachable
\* from Tree.root through slots has a parent, prev or next reference to a
\* node that is not reachable from Tree.root (so a right node released by a
\* merge and an old root discarded by demotion are referenced by no node
\* still in the tree), and Tree.first is reachable from Tree.root.
C30_NoDanglingLinks ==
    /\ first \in InTree
    /\ \A n \in InTree :
          /\ heap[n].parent \in InTree \cup {NULL}
          /\ heap[n].prev \in InTree \cup {NULL}
          /\ heap[n].next \in InTree \cup {NULL}

ResizeFaults == {"roomShort", "roomOver", "sealedWrite", "reducedShort"}

\* C31: one resize step suffices: for a power-of-two nodeCapacity, in every
\* moveFrom of a public operation, after the at most one doubling of the
\* recipient's array, childCount + count <= children.length <= nodeCapacity,
\* so no slot index >= children.length of the sealed array is written; and
\* in every wipe the at most one halving leaves
\* childCount * 2 > children.length whenever childCount > 0.
C31_OneResizeStep == nodeCapacity \in {2, 4} => last \cap ResizeFaults = {}

=============================================================================
